---- MODULE Spec2Model ----
(***************************************************************************)
(* Model of the Zerodha historical-data fetcher: the date chunker          *)
(* (internal/kite), the rate-limited client (internal/kite/client.go),     *)
(* the storage backends (internal/storage) and the fetch-data command      *)
(* (internal/cli/fetch.go).                                                *)
(*                                                                         *)
(* Instants are whole seconds counted from 2024-01-01 00:00:00 UTC.        *)
(***************************************************************************)
EXTENDS Integers, Sequences, FiniteSets, TLC

VARIABLES
    from,       \* GenerateDateChunks argument / runFetchData's from
    to,         \* GenerateDateChunks argument / runFetchData's to
    interval,   \* conf.Interval
    chunks,     \* the [][2]time.Time the chunker returned
    cpc,        \* position of the chunker caller: "call" or "done"
    backend,    \* the Store implementation NewStore returned
    schemaReady,\* the ohlcv table (database) or the base directory (files) exists
    closed,     \* Close() was called on the store
    table,      \* rows of the ohlcv table (DuckDB and SQLite backends)
    files,      \* symbol -> the file <symbol>.csv / <symbol>.json
    lastCall,   \* what the latest StoreCandles call was given and returned
    lastInit,   \* the Init calls made in succession and what the latest returned
    limiter,    \* Client.limiter: [tokens, last], tokens in 1/TicksPerSecond of a token
    now,        \* the clock, in ticks
    ghd,        \* the running Client.GetHistoricalData invocation
    admitTimes, \* history: the instants at which limiter.Wait granted a token
    upstreamLog,\* history: the calls made to kc.GetHistoricalData
    invocations,\* history: number of GetHistoricalData invocations started
    instruments,\* conf.Instruments
    pc,         \* position in runFetchingLoop
    idx,        \* position of the outer loop in conf.Instruments (1-based)
    chunkIdx,   \* position of the inner loop in chunks (1-based)
    processedInstruments,
    totalInserted,
    totalCandles,
    events,     \* history: the fetches and StoreCandles calls of the run, in order
    conf,       \* the other fields of config.Config
    runErr,     \* the error runFetchData returned ("" while none)
    plan,       \* what calculateAPICalls returned and reported
    steps       \* history: the steps of runFetchData executed so far

chunkVars == <<from, to, interval, chunks, cpc>>
storeVars == <<backend, schemaReady, closed, table, files, lastCall, lastInit>>
clientVars == <<limiter, now, ghd, admitTimes, upstreamLog, invocations>>
runVars == <<conf, runErr, plan, steps>>
loopVars ==
    <<instruments, pc, idx, chunkIdx, processedInstruments, totalInserted,
      totalCandles, events, runVars>>
vars == <<chunkVars, storeVars, clientVars, loopVars>>

----------------------------------------------------------------------------
(* Bounds of the model *)

\* largest number of full windows in a generated range
MaxWindows == 2
\* ranges are taken up to this many seconds before and after a window multiple
MaxDelta == 3
\* longest batch handed to StoreCandles
MaxBatch == 2
\* StoreCandles is called on one store while the calls made plus the records
\* handed over stay within this number
MaxWork == 5
\* Init calls made in succession on one store
MaxInits == 2
\* rows the CSV writer's buffer holds before it writes through to the file
WriterBufferRows == 2
\* clock ticks per second
TicksPerSecond == 6
\* the clock is advanced by callers up to this instant
MaxTime == 6
\* GetHistoricalData invocations made on one client
MaxInvocations == 4
\* longest conf.Instruments
MaxInstruments == 2
\* largest number of API calls calculateAPICalls plans for a run
MaxPlannedCalls == 2
\* most candles the upstream endpoint returns for one chunk
MaxCandlesPerChunk == 1

----------------------------------------------------------------------------
(* internal/kite: interval calendar and chunker *)

SecondsPerDay == 24 * 3600

IntradayMaxDays == 60
DailyChunkDays == 2000

\* the keys of intervalMap
KnownIntervals ==
    {"minute", "3minute", "5minute", "10minute", "15minute", "30minute",
     "60minute", "hour", "day"}

\* tokens that are not keys of intervalMap (the keys are case-sensitive)
UnknownIntervals == {"week", "2minute", "Day", ""}

Intervals == KnownIntervals \cup UnknownIntervals

parseIntervalMinutesDefaultDay(iv) ==
    CASE iv = "minute"   -> 1
      [] iv = "3minute"  -> 3
      [] iv = "5minute"  -> 5
      [] iv = "10minute" -> 10
      [] iv = "15minute" -> 15
      [] iv = "30minute" -> 30
      [] iv = "60minute" -> 60
      [] iv = "hour"     -> 60
      [] iv = "day"      -> 1440
      [] OTHER           -> 1440

\* the lookup in intervalMap; return 1 for a missing key
parseIntervalMinutes(iv) ==
    CASE iv = "minute"   -> 1
      [] iv = "3minute"  -> 3
      [] iv = "5minute"  -> 5
      [] iv = "10minute" -> 10
      [] iv = "15minute" -> 15
      [] iv = "30minute" -> 30
      [] iv = "60minute" -> 60
      [] iv = "hour"     -> 60
      [] iv = "day"      -> 1440
      [] OTHER           -> 1

IsDailyOrLargerExclusive(iv) == parseIntervalMinutes(iv) > 1440

IsDailyOrLarger(iv) == parseIntervalMinutes(iv) >= 1440

ChunkSizeAlwaysDaily(iv) == DailyChunkDays * SecondsPerDay

ChunkSizeSwapped(iv) ==
    IF IsDailyOrLarger(iv)
    THEN IntradayMaxDays * SecondsPerDay
    ELSE DailyChunkDays * SecondsPerDay

\* chunkSize of GenerateDateChunks, in seconds
ChunkSize(iv) ==
    IF IsDailyOrLarger(iv)
    THEN DailyChunkDays * SecondsPerDay
    ELSE IntradayMaxDays * SecondsPerDay

ChunkEndUnclamped(currentStart, t, chunkSize) == currentStart + chunkSize

\* currentEnd of one loop iteration: currentStart + chunkSize, cut at to
ChunkEnd(currentStart, t, chunkSize) ==
    IF currentStart + chunkSize > t THEN t ELSE currentStart + chunkSize

NextStartOverlapping(currentEnd) == currentEnd

\* currentStart of the next iteration: currentEnd.Add(time.Second)
NextStart(currentEnd) == currentEnd + 1

RECURSIVE ChunkLoopInclusive(_, _, _, _)
ChunkLoopInclusive(currentStart, t, chunkSize, acc) ==
    IF currentStart <= t
    THEN LET currentEnd == ChunkEnd(currentStart, t, chunkSize)
         IN  ChunkLoopInclusive(NextStart(currentEnd), t, chunkSize,
                                Append(acc, <<currentStart, currentEnd>>))
    ELSE acc

RECURSIVE ChunkLoop(_, _, _, _)
\* the for loop of GenerateDateChunks: for currentStart.Before(to)
ChunkLoop(currentStart, t, chunkSize, acc) ==
    IF currentStart < t
    THEN LET currentEnd == ChunkEnd(currentStart, t, chunkSize)
         IN  ChunkLoop(NextStart(currentEnd), t, chunkSize,
                       Append(acc, <<currentStart, currentEnd>>))
    ELSE acc

GenerateDateChunks(f, t, iv) == ChunkLoop(f, t, ChunkSize(iv), <<>>)

\* the lengths of the months of 2024
MonthDays2024 == <<31, 29, 31, 30, 31, 30, 31, 31, 30, 31, 30, 31>>

RECURSIVE DaysBeforeMonth2024(_)
DaysBeforeMonth2024(m) ==
    IF m = 1 THEN 0 ELSE DaysBeforeMonth2024(m - 1) + MonthDays2024[m - 1]

\* time.Parse("2006-01-02", "2024-mm-dd"): midnight UTC of the day
Instant2024(m, day) == (DaysBeforeMonth2024(m) + day - 1) * SecondsPerDay

----------------------------------------------------------------------------
(* internal/storage: the Store implementations *)

StorageTypeDuckDB == "duckdb"
StorageTypeSQLite == "sqlite"
StorageTypeJSON == "json"
StorageTypeCSV == "csv"

Backends == {StorageTypeDuckDB, StorageTypeSQLite, StorageTypeJSON, StorageTypeCSV}
DBBackends == {StorageTypeDuckDB, StorageTypeSQLite}
FileBackends == {StorageTypeJSON, StorageTypeCSV}

\* NewStore: the implementation chosen for a storage type
NewStore(storageType) ==
    CASE storageType = StorageTypeDuckDB -> StorageTypeDuckDB
      [] storageType = StorageTypeSQLite -> StorageTypeSQLite
      [] storageType = StorageTypeJSON   -> StorageTypeJSON
      [] storageType = StorageTypeCSV    -> StorageTypeCSV
      [] OTHER                           -> StorageTypeDuckDB

Symbols == {"SBIN", "RELIANCE"}

\* kiteconnect.HistoricalData: t is the candle's timestamp, nan tells that a
\* price is NaN (a value encoding/json cannot encode)
Candle(t, nan) == [t |-> t, nan |-> nan]

\* the batches of up to MaxBatch candles with ascending timestamps 1, 2, ...
Batches ==
    UNION {{[i \in 1..n |-> Candle(i, flags[i])] : flags \in [1..n -> BOOLEAN]} :
           n \in 0..MaxBatch}

\* a stored record: an ohlcv row, a CSV line or a JSON array element; seq is
\* the number of the StoreCandles call that wrote it (history, not data)
Row(symbol, c, seq) ==
    [kind |-> "row", instrument |-> symbol, t |-> c.t, nan |-> c.nan, seq |-> seq]

\* the CSV header line instrument,timestamp,open,high,low,close,volume
HeaderRow == [kind |-> "header", instrument |-> "instrument", t |-> 0, nan |-> FALSE, seq |-> 0]

Rows(symbol, candles, seq) == [i \in 1..Len(candles) |-> Row(symbol, candles[i], seq)]

\* a file: exists (os.Stat succeeds), valid (its text parses), rows (its lines
\* or array elements)
NoFile == [exists |-> FALSE, valid |-> TRUE, rows |-> <<>>]

\* the sequence s without the elements whose index is in skip
RECURSIVE Without(_, _, _)
Without(s, skip, i) ==
    IF i > Len(s) THEN <<>>
    ELSE IF i \in skip THEN Without(s, skip, i + 1)
         ELSE <<s[i]>> \o Without(s, skip, i + 1)

\* --- DuckDBStore.StoreCandles and SQLiteStore.StoreCandles ---
\* f.stage: the batch-level step that fails ("none", "begin", "prepare",
\* "commit"); f.rows: the indices whose stmt.Exec returns an error
DBFaults(n) == [stage : {"none", "begin", "prepare", "commit"}, rows : SUBSET (1..n)]

DBStoreCandlesFailBatch(tbl, symbol, candles, seq, f) ==
    IF f.stage # "none" \/ f.rows # {}
    THEN [table |-> tbl, n |-> 0, err |-> TRUE, failed |-> f.rows]
    ELSE [table |-> tbl \o Rows(symbol, candles, seq), n |-> Len(candles),
          err |-> FALSE, failed |-> {}]

DBStoreCandlesCommitKeepsRows(tbl, symbol, candles, seq, f) ==
    IF f.stage = "begin" THEN
        [table |-> tbl, n |-> 0, err |-> TRUE, failed |-> {}]
    ELSE IF f.stage = "prepare" THEN
        [table |-> tbl, n |-> 0, err |-> TRUE, failed |-> {}]
    ELSE
        LET inserted == Without(Rows(symbol, candles, seq), f.rows, 1)
        IN  IF f.stage = "commit"
            THEN [table |-> tbl \o inserted, n |-> 0, err |-> TRUE, failed |-> f.rows]
            ELSE [table |-> tbl \o inserted, n |-> Len(inserted),
                  err |-> FALSE, failed |-> f.rows]

DBStoreCandles(tbl, symbol, candles, seq, f) ==
    IF f.stage = "begin" THEN
        \* s.db.Begin() failed
        [table |-> tbl, n |-> 0, err |-> TRUE, failed |-> {}]
    ELSE IF f.stage = "prepare" THEN
        \* tx.Prepare failed; the deferred tx.Rollback() ends the transaction
        [table |-> tbl, n |-> 0, err |-> TRUE, failed |-> {}]
    ELSE
        LET inserted == Without(Rows(symbol, candles, seq), f.rows, 1)
        IN  IF f.stage = "commit"
            THEN \* tx.Commit() failed: nothing of the transaction is kept
                 [table |-> tbl, n |-> 0, err |-> TRUE, failed |-> f.rows]
            ELSE [table |-> tbl \o inserted, n |-> Len(inserted),
                  err |-> FALSE, failed |-> f.rows]

\* --- JSONStore.StoreCandles ---
\* f.read: os.ReadFile fails although the file exists; f.write: how
\* os.WriteFile ends: "ok", "open" (the file could not be opened, it is left
\* as it was) or "partial" (truncated, then the write failed)
JSONFaults == [read : BOOLEAN, write : {"ok", "open", "partial"}]

JSONStoreCandles(file, symbol, candles, seq, f) ==
    LET \* json.Unmarshal's error is ignored: unreadable text leaves nil
        existingData == IF file.exists /\ ~f.read /\ file.valid THEN file.rows ELSE <<>>
        allData == existingData \o Rows(symbol, candles, seq)
        unsupported == {i \in 1..Len(candles) : candles[i].nan}
    IN  IF \E i \in 1..Len(allData) : allData[i].nan THEN
            \* json.MarshalIndent: unsupported value
            [file |-> file, n |-> 0, err |-> TRUE, failed |-> unsupported]
        ELSE IF f.write = "open" THEN
            [file |-> file, n |-> 0, err |-> TRUE, failed |-> {}]
        ELSE IF f.write = "partial" THEN
            [file |-> [exists |-> TRUE, valid |-> FALSE, rows |-> <<>>],
             n |-> 0, err |-> TRUE, failed |-> {}]
        ELSE
            [file |-> [exists |-> TRUE, valid |-> TRUE, rows |-> allData],
             n |-> Len(candles), err |-> FALSE, failed |-> {}]

\* --- CSVStore.StoreCandles ---
\* The csv.Writer writes into a bufio.Writer: a line goes to the buffer, a full
\* buffer is written through to the file first, and an error of a write-through
\* is kept by the writer, which then fails every later Write and Flush.
\* w = [disk, buf, sticky, flushes]: the file's lines, the buffered lines,
\* the kept error, the number of write-throughs attempted so far.
\* failFlush: the write-through that fails (0: none)

WriterFlush(w, failFlush) ==
    IF w.sticky THEN w
    ELSE IF w.buf = <<>> THEN w
    ELSE IF w.flushes + 1 = failFlush
         THEN [w EXCEPT !.sticky = TRUE, !.flushes = @ + 1]
         ELSE [w EXCEPT !.disk = @ \o w.buf, !.buf = <<>>, !.flushes = @ + 1]

\* writer.Write(line): the writer after it; its error is the writer's sticky
WriterWrite(w, line, failFlush) ==
    IF w.sticky THEN w
    ELSE IF Len(w.buf) < WriterBufferRows
         THEN [w EXCEPT !.buf = Append(@, line)]
         ELSE LET flushed == WriterFlush(w, failFlush)
              IN  IF flushed.sticky THEN flushed
                  ELSE [flushed EXCEPT !.buf = <<line>>]

RECURSIVE CSVWriteCandles(_, _, _, _, _, _)
\* the loop over candles: [w, inserted, failed]
CSVWriteCandles(w, lines, i, inserted, failed, failFlush) ==
    IF i > Len(lines) THEN [w |-> w, inserted |-> inserted, failed |-> failed]
    ELSE LET w2 == WriterWrite(w, lines[i], failFlush)
         IN  IF w2.sticky
             THEN CSVWriteCandles(w2, lines, i + 1, inserted, failed \cup {i}, failFlush)
             ELSE CSVWriteCandles(w2, lines, i + 1, inserted + 1, failed, failFlush)

\* a call writes at most MaxBatch + 1 lines, so it attempts fewer than
\* MaxBatch + 2 write-throughs
CSVFaults == [open : BOOLEAN, failFlush : 0..(MaxBatch + 2)]

CSVStoreCandles(file, symbol, candles, seq, f) ==
    IF f.open THEN
        \* os.OpenFile failed
        [file |-> file, n |-> 0, err |-> TRUE, failed |-> {}]
    ELSE
        LET fileExists == file.exists
            w0 == [disk |-> file.rows, buf |-> <<>>, sticky |-> FALSE, flushes |-> 0]
            w1 == IF fileExists THEN w0 ELSE WriterWrite(w0, HeaderRow, f.failFlush)
        IN  IF w1.sticky THEN
                \* writing the header failed
                [file |-> [exists |-> TRUE, valid |-> TRUE, rows |-> w1.disk],
                 n |-> 0, err |-> TRUE, failed |-> {}]
            ELSE
                LET r == CSVWriteCandles(w1, Rows(symbol, candles, seq), 1, 0, {}, f.failFlush)
                    \* defer writer.Flush(): its error is not looked at
                    w3 == WriterFlush(r.w, f.failFlush)
                IN  [file |-> [exists |-> TRUE, valid |-> TRUE, rows |-> w3.disk],
                     n |-> r.inserted, err |-> FALSE, failed |-> r.failed]

----------------------------------------------------------------------------
(* Specification SpecChunk: GenerateDateChunks applied to bounded inputs *)

FromInstants == {0, 1, SecondsPerDay}

\* the ranges of the documented runs: 2024-01-01 to 2024-01-05 and 2024-01-01
\* to 2024-04-01
ScenarioSpans == {Instant2024(1, 5) - Instant2024(1, 1), Instant2024(4, 1) - Instant2024(1, 1)}

\* lengths to - from around every multiple of the interval's window, and the
\* documented ranges
Spans(iv) ==
    {k * ChunkSize(iv) + d : k \in 0..MaxWindows, d \in (0 - MaxDelta)..MaxDelta}
        \cup ScenarioSpans

----------------------------------------------------------------------------
(* internal/kite/client.go: the rate-limited client *)

RateLimitRequestsPerSecond == 3
RateLimitBurst == 1

Min(a, b) == IF a < b THEN a ELSE b

\* rate.NewLimiter(RateLimitRequestsPerSecond, RateLimitBurst): a full bucket
NewLimiter(t) == [tokens |-> RateLimitBurst * TicksPerSecond, last |-> t]

\* the bucket at instant t: RateLimitRequestsPerSecond tokens per second are
\* added, up to RateLimitBurst
LimiterAdvance(lim, t) ==
    [tokens |-> Min(RateLimitBurst * TicksPerSecond,
                    lim.tokens + RateLimitRequestsPerSecond * (t - lim.last)),
     last |-> t]

\* ticks limiter.Wait sleeps at instant t until one token is there
WaitDelay(lim, t) ==
    LET have == LimiterAdvance(lim, t).tokens
        missing == TicksPerSecond - have
    IN  IF missing <= 0 THEN 0
        ELSE (missing + RateLimitRequestsPerSecond - 1) \div RateLimitRequestsPerSecond

\* the bucket after limiter.Wait took its token at instant t
LimiterTake(lim, t) ==
    [LimiterAdvance(lim, t) EXCEPT !.tokens = @ - TicksPerSecond]

\* cancelled (history): the caller's context was cancelled while the
\* invocation was blocked in limiter.Wait
NoInvocation ==
    [pc |-> "idle", token |-> 0, chunkFrom |-> 0, chunkTo |-> 0, candles |-> <<>>,
     err |-> FALSE, acquired |-> 0, waitFailed |-> FALSE, upstream |-> 0,
     cancelled |-> FALSE]

\* entry of GetHistoricalData(instrumentToken, interval, from, to)
Invocation(token, f, t) ==
    [pc |-> "wait", token |-> token, chunkFrom |-> f, chunkTo |-> t, candles |-> <<>>,
     err |-> FALSE, acquired |-> 0, waitFailed |-> FALSE, upstream |-> 0,
     cancelled |-> FALSE]

GHD_WaitSkipped(ok) ==
    /\ ghd.pc = "wait"
    /\ ghd' = [ghd EXCEPT !.pc = "call"]
    /\ UNCHANGED <<limiter, now, admitTimes, upstreamLog, invocations>>

GHD_WaitFreshLimiter(ok) ==
    /\ ghd.pc = "wait"
    /\ LET d == WaitDelay(NewLimiter(now), now)
       IN  /\ now' = now + d
           /\ limiter' = LimiterTake(NewLimiter(now), now')
           /\ admitTimes' = Append(admitTimes, now')
           /\ ghd' = [ghd EXCEPT !.pc = "call", !.acquired = @ + 1]
    /\ UNCHANGED <<upstreamLog, invocations>>

\* c.limiter.Wait(context.Background()): ok tells whether the limiter granted
\* the token; it sleeps until the token is there
GHD_Wait(ok) ==
    /\ ghd.pc = "wait"
    /\ IF ok
       THEN LET d == WaitDelay(limiter, now)
            IN  /\ now' = now + d
                /\ limiter' = LimiterTake(limiter, now')
                /\ admitTimes' = Append(admitTimes, now')
                /\ ghd' = [ghd EXCEPT !.pc = "call", !.acquired = @ + 1]
       ELSE \* return nil, fmt.Errorf("rate limiter error: %v", err)
            /\ ghd' = [ghd EXCEPT !.pc = "ret", !.err = TRUE, !.waitFailed = TRUE]
            /\ UNCHANGED <<limiter, now, admitTimes>>
    /\ UNCHANGED <<upstreamLog, invocations>>

\* what the upstream endpoint answers: an error or up to MaxCandlesPerChunk
\* candles (decoded from JSON, so no price is NaN)
UpstreamCandles ==
    {[i \in 1..n |-> Candle(i, FALSE)] : n \in 0..MaxCandlesPerChunk}

\* c.kc.GetHistoricalData(instrumentToken, interval, from, to, false, false)
GHD_Upstream(apiErr, candles) ==
    /\ ghd.pc = "call"
    /\ upstreamLog' = Append(upstreamLog,
          [token |-> ghd.token, chunkFrom |-> ghd.chunkFrom, chunkTo |-> ghd.chunkTo])
    /\ ghd' = [ghd EXCEPT !.pc = "ret", !.upstream = @ + 1, !.err = apiErr,
                          !.candles = IF apiErr THEN <<>> ELSE candles]
    /\ UNCHANGED <<limiter, now, admitTimes, invocations>>

GetHistoricalDataStep ==
    \/ \E ok \in BOOLEAN : GHD_Wait(ok)
    \/ \E candles \in UpstreamCandles : GHD_Upstream(FALSE, candles)
    \/ GHD_Upstream(TRUE, <<>>)

\* the client right after NewClientWithConfigPath
ClientNew ==
    /\ limiter = NewLimiter(0)
    /\ now = 0
    /\ ghd = NoInvocation
    /\ admitTimes = <<>>
    /\ upstreamLog = <<>>
    /\ invocations = 0

\* a configuration that passes validation
NoConf ==
    [apiKey |-> "key", apiSecret |-> "secret", requestToken |-> "valid",
     fromDate |-> "2024-01-01", toDate |-> "2024-03-31", storageType |-> "",
     storagePath |-> "", duckdbPath |-> ""]

\* calculateAPICalls not yet called
NoPlan == [totalAPICalls |-> 0, validInstruments |-> 0, invalidInstruments |-> 0]

LoopUnused ==
    /\ conf = NoConf
    /\ runErr = ""
    /\ plan = NoPlan
    /\ steps = {}
    /\ instruments = <<>>
    /\ pc = "idle"
    /\ idx = 0
    /\ chunkIdx = 0
    /\ processedInstruments = 0
    /\ totalInserted = 0
    /\ totalCandles = 0
    /\ events = <<>>

\* the store before NewStore: nothing on disk, no call made
NoCall ==
    [seq |-> 0, symbol |-> "", batch |-> <<>>, n |-> 0, err |-> FALSE,
     failed |-> {}, batchFault |-> FALSE, work |-> 0]

\* no Init call made yet
NoInit == [calls |-> 0, err |-> FALSE, fault |-> FALSE]

StoreUnused ==
    /\ backend = StorageTypeDuckDB
    /\ schemaReady = FALSE
    /\ closed = FALSE
    /\ table = <<>>
    /\ files = [s \in Symbols |-> NoFile]
    /\ lastCall = NoCall
    /\ lastInit = NoInit

ChunkerUnused ==
    /\ interval = "day"
    /\ from = 0
    /\ to = 0
    /\ chunks = <<>>
    /\ cpc = "idle"

InitChunk ==
    /\ interval \in Intervals
    /\ from \in FromInstants
    /\ to \in {from + s : s \in Spans(interval)}
    /\ chunks = <<>>
    /\ cpc = "call"
    /\ StoreUnused
    /\ ClientNew
    /\ LoopUnused

CallGenerateDateChunks ==
    /\ cpc = "call"
    /\ chunks' = GenerateDateChunks(from, to, interval)
    /\ cpc' = "done"
    /\ UNCHANGED <<from, to, interval>>
    /\ UNCHANGED <<storeVars, clientVars, loopVars>>

NextChunk == CallGenerateDateChunks

SpecChunk == InitChunk /\ [][NextChunk]_vars

----------------------------------------------------------------------------
(* Properties of the chunker *)

Start(i) == chunks[i][1]
End(i) == chunks[i][2]

\* the instants at which the number of covering chunks can change
Probes ==
    {from, to} \cup
    UNION {{Start(i) - 1, Start(i), End(i), End(i) + 1} : i \in 1..Len(chunks)}

Covering(t) == {i \in 1..Len(chunks) : Start(i) <= t /\ t <= End(i)}

\* C1: for from < to the chunks cover [from, to] exactly: the first chunk
\* starts at from, every instant of [from, to] lies in exactly one chunk and
\* no chunk holds an instant outside [from, to].
C1_ChunksCoverRange ==
    (cpc = "done" /\ from < to) =>
        /\ Len(chunks) >= 1
        /\ Start(1) = from
        /\ \A t \in Probes :
              IF from <= t /\ t <= to
              THEN Cardinality(Covering(t)) = 1
              ELSE Covering(t) = {}

\* C2: consecutive chunks are one second apart, start(i+1) = end(i) + 1 s, and
\* chunk starts and chunk ends are strictly ascending.
C2_ConsecutiveChunksOneSecondApart ==
    cpc = "done" =>
        \A i \in 1..(Len(chunks) - 1) :
            /\ Start(i + 1) = End(i) + 1
            /\ Start(i) < Start(i + 1)
            /\ End(i) < End(i + 1)

C2_Witness == cpc = "done" /\ Len(chunks) >= 3

\* C3: for from < to the last chunk ends exactly at to and no chunk ends
\* after to.
C3_LastChunkEndsAtTo ==
    (cpc = "done" /\ from < to) =>
        /\ Len(chunks) >= 1
        /\ End(Len(chunks)) = to
        /\ \A i \in 1..Len(chunks) : End(i) <= to

\* the window the interval allows, in seconds: 2000 days for a
\* daily-or-coarser interval, 60 days for any other
MaxWindowSeconds(iv) ==
    IF IsDailyOrLarger(iv)
    THEN DailyChunkDays * SecondsPerDay
    ELSE IntradayMaxDays * SecondsPerDay

\* C4: every chunk has length end - start at most the interval's window.
C4_ChunkLengthWithinWindow ==
    cpc = "done" =>
        \A i \in 1..Len(chunks) :
            End(i) - Start(i) <= MaxWindowSeconds(interval)

C4_Witness ==
    /\ cpc = "done"
    /\ ~IsDailyOrLarger(interval)
    /\ \E i \in 1..Len(chunks) :
          End(i) - Start(i) = IntradayMaxDays * SecondsPerDay

\* C31: the request window is exactly 2000 days for "day", the one interval
\* of at least 1440 minutes per sample, and exactly 60 days for minute,
\* 3minute, 5minute, 10minute, 15minute, 30minute, 60minute and hour: the
\* first chunk of a range is as long as the range or as the window, whichever
\* is shorter.
C31_MaxRequestWindow ==
    (cpc = "done" /\ interval \in KnownIntervals) =>
        LET window == IF interval = "day" THEN 2000 * SecondsPerDay
                      ELSE 60 * SecondsPerDay
        IN  /\ parseIntervalMinutes(interval) >= 1440 <=> interval = "day"
            /\ ChunkSize(interval) = window
            /\ from < to =>
                  /\ Len(chunks) >= 1
                  /\ End(1) - Start(1) = IF to - from < window THEN to - from ELSE window

\* a "day" range whose first chunk is exactly 2000 days long
C31_Witness ==
    /\ cpc = "done"
    /\ interval = "day"
    /\ Len(chunks) >= 2
    /\ End(1) - Start(1) = 2000 * SecondsPerDay

\* C26: GenerateDateChunks returns no chunk exactly when from >= to.
C26_ZeroChunksIffFromNotBeforeTo ==
    cpc = "done" => (chunks = <<>> <=> from >= to)

\* called with from = to, it returned no chunk
C26_Witness == cpc = "done" /\ from = to /\ chunks = <<>>

\* C27: a range 0 < to - from that is no longer than the interval's window
\* gives the single chunk (from, to); so "day" from 2024-01-01 to 2024-01-05
\* gives exactly one chunk.
C27_ShortRangeIsOneChunk ==
    cpc = "done" =>
        /\ (0 < to - from /\ to - from <= MaxWindowSeconds(interval)) =>
               chunks = << <<from, to>> >>
        /\ (interval = "day" /\ from = Instant2024(1, 1) /\ to = Instant2024(1, 5)) =>
               Len(chunks) = 1

\* "day" from 2024-01-01 to 2024-01-05 returned the one chunk (from, to)
C27_Witness ==
    /\ cpc = "done"
    /\ interval = "day"
    /\ from = Instant2024(1, 1)
    /\ to = Instant2024(1, 5)
    /\ chunks = << <<from, to>> >>

\* C28: "minute" from 2024-01-01 to 2024-04-01 gives exactly 2 chunks: the
\* first starts at from and is exactly 60 days long, the second ends exactly
\* at to.
C28_MinuteQuarterIsTwoChunks ==
    (/\ cpc = "done"
     /\ interval = "minute"
     /\ from = Instant2024(1, 1)
     /\ to = Instant2024(4, 1))
    => /\ Len(chunks) = 2
       /\ Start(1) = from
       /\ End(1) - Start(1) = 60 * SecondsPerDay
       /\ End(2) = to

C28_Witness ==
    /\ cpc = "done"
    /\ interval = "minute"
    /\ from = Instant2024(1, 1)
    /\ to = Instant2024(4, 1)
    /\ Len(chunks) = 2

\* C30: for a token that is not in its table parseIntervalMinutes gives 1, so
\* the token is intraday (IsDailyOrLarger is false) and its range is cut with
\* the 60-day window: no chunk is longer than 60 days and a longer range
\* starts with a chunk of exactly 60 days.
C30_UnknownIntervalIsOneMinute ==
    (cpc = "done" /\ interval \notin KnownIntervals) =>
        /\ parseIntervalMinutes(interval) = 1
        /\ ~IsDailyOrLarger(interval)
        /\ ChunkSize(interval) = 60 * SecondsPerDay
        /\ \A i \in 1..Len(chunks) : End(i) - Start(i) <= 60 * SecondsPerDay
        /\ to - from > 60 * SecondsPerDay =>
               (Len(chunks) >= 1 /\ End(1) - Start(1) = 60 * SecondsPerDay)

\* an unknown token whose range of more than 60 days was cut
C30_Witness ==
    /\ cpc = "done"
    /\ interval = "2minute"
    /\ Len(chunks) >= 2
    /\ End(1) - Start(1) = 60 * SecondsPerDay

----------------------------------------------------------------------------
(* Specification SpecStore: Init, StoreCandles and Close called on one store *)

InitStore ==
    /\ backend \in Backends
    /\ schemaReady = FALSE
    /\ closed = FALSE
    /\ table = <<>>
    /\ files = [s \in Symbols |-> NoFile]
    /\ lastCall = NoCall
    /\ lastInit = NoInit
    /\ ChunkerUnused
    /\ ClientNew
    /\ LoopUnused

\* CREATE TABLE ohlcv / os.Mkdir(basePath): fails when the table or the
\* directory is there already
InitResultFailsIfPresent(b, ready, isClosed, ok) ==
    LET err == (b \in DBBackends /\ isClosed) \/ ~ok \/ ready
    IN  [ready |-> ready \/ ~err, err |-> err]

\* CREATE TABLE IF NOT EXISTS ohlcv / os.MkdirAll(basePath): what Init returns
\* and whether the table or the directory exists afterwards; ok tells whether
\* the environment lets the statement or the directory creation succeed, and
\* a closed database executes nothing
InitResult(b, ready, isClosed, ok) ==
    LET err == (b \in DBBackends /\ isClosed) \/ ~ok
    IN  [ready |-> ready \/ ~err, err |-> err]

\* Init()
StoreInit(ok) ==
    LET r == InitResult(backend, schemaReady, closed, ok)
    IN  /\ lastInit.calls < MaxInits
        /\ schemaReady' = r.ready
        /\ lastInit' = [calls |-> lastInit.calls + 1, err |-> r.err, fault |-> ~ok]
        /\ UNCHANGED <<backend, closed, table, files, lastCall>>

\* the faults the environment can produce for a call, given the store's state:
\* a closed database cannot begin a transaction, a missing table cannot be
\* prepared against, a missing directory holds no file
DBFaultsNow(n) ==
    {f \in DBFaults(n) :
        /\ closed => f.stage = "begin"
        /\ ~schemaReady => f.stage \in {"begin", "prepare"}}

JSONFaultsNow == {f \in JSONFaults : ~schemaReady => f.write = "open"}

CSVFaultsNow == {f \in CSVFaults : ~schemaReady => f.open}

StoreCandlesOneFileForAll(symbol, candles, f) ==
    LET seq == lastCall.seq + 1
        work == lastCall.work + 1 + Len(candles)
    IN  IF backend \in DBBackends THEN
            LET r == DBStoreCandles(table, symbol, candles, seq, f)
            IN  /\ table' = r.table
                /\ files' = files
                /\ lastCall' = [seq |-> seq, symbol |-> symbol, batch |-> candles,
                                n |-> r.n, err |-> r.err, failed |-> r.failed,
                                batchFault |-> (f.stage # "none"), work |-> work]
        ELSE IF backend = StorageTypeJSON THEN
            LET r == JSONStoreCandles(files[symbol], symbol, candles, seq, f)
            IN  /\ files' = [s \in Symbols |-> r.file]
                /\ table' = table
                /\ lastCall' = [seq |-> seq, symbol |-> symbol, batch |-> candles,
                                n |-> r.n, err |-> r.err, failed |-> r.failed,
                                batchFault |-> (f.read \/ f.write # "ok"), work |-> work]
        ELSE
            LET r == CSVStoreCandles(files[symbol], symbol, candles, seq, f)
            IN  /\ files' = [s \in Symbols |-> r.file]
                /\ table' = table
                /\ lastCall' = [seq |-> seq, symbol |-> symbol, batch |-> candles,
                                n |-> r.n, err |-> r.err, failed |-> r.failed,
                                batchFault |-> f.open, work |-> work]

\* StoreCandles(symbol, candles) on the chosen backend, under fault f
StoreCandles(symbol, candles, f) ==
    LET seq == lastCall.seq + 1
        work == lastCall.work + 1 + Len(candles)
    IN  IF backend \in DBBackends THEN
            LET r == DBStoreCandles(table, symbol, candles, seq, f)
            IN  /\ table' = r.table
                /\ files' = files
                /\ lastCall' = [seq |-> seq, symbol |-> symbol, batch |-> candles,
                                n |-> r.n, err |-> r.err, failed |-> r.failed,
                                batchFault |-> (f.stage # "none"), work |-> work]
        ELSE IF backend = StorageTypeJSON THEN
            LET r == JSONStoreCandles(files[symbol], symbol, candles, seq, f)
            IN  /\ files' = [files EXCEPT ![symbol] = r.file]
                /\ table' = table
                /\ lastCall' = [seq |-> seq, symbol |-> symbol, batch |-> candles,
                                n |-> r.n, err |-> r.err, failed |-> r.failed,
                                batchFault |-> (f.read \/ f.write # "ok"), work |-> work]
        ELSE
            LET r == CSVStoreCandles(files[symbol], symbol, candles, seq, f)
            IN  /\ files' = [files EXCEPT ![symbol] = r.file]
                /\ table' = table
                /\ lastCall' = [seq |-> seq, symbol |-> symbol, batch |-> candles,
                                n |-> r.n, err |-> r.err, failed |-> r.failed,
                                batchFault |-> f.open, work |-> work]

FaultsNow(n) ==
    IF backend \in DBBackends THEN DBFaultsNow(n)
    ELSE IF backend = StorageTypeJSON THEN JSONFaultsNow
    ELSE CSVFaultsNow

CallStoreCandles ==
    /\ \E symbol \in Symbols :
       \E candles \in {b \in Batches : lastCall.work + 1 + Len(b) <= MaxWork} :
          \E f \in FaultsNow(Len(candles)) : StoreCandles(symbol, candles, f)
    /\ lastInit' = NoInit
    /\ UNCHANGED <<backend, schemaReady, closed>>

\* Close(): s.db.Close() for the databases, nothing for the file writers
StoreClose ==
    /\ closed' = TRUE
    /\ lastInit' = NoInit
    /\ UNCHANGED <<backend, schemaReady, table, files, lastCall>>

NextStore ==
    \/ (\E ok \in BOOLEAN : StoreInit(ok)) /\ UNCHANGED <<chunkVars, clientVars, loopVars>>
    \/ CallStoreCandles /\ UNCHANGED <<chunkVars, clientVars, loopVars>>
    \/ StoreClose /\ UNCHANGED <<chunkVars, clientVars, loopVars>>

SpecStore == InitStore /\ [][NextStore]_vars

----------------------------------------------------------------------------
(* Properties of the storage backends *)

CountIn(rows, seq) == Cardinality({i \in 1..Len(rows) : rows[i].seq = seq})

\* the records a store holds for a symbol (a file whose text does not parse
\* holds none)
StoredRows(symbol) ==
    IF backend \in DBBackends
    THEN SelectSeq(table, LAMBDA r : r.instrument = symbol)
    ELSE IF files[symbol].valid
         THEN SelectSeq(files[symbol].rows, LAMBDA r : r.kind = "row")
         ELSE <<>>

\* the records of the latest call's batch that are stored
DurableOfLastCall == CountIn(StoredRows(lastCall.symbol), lastCall.seq)

\* C9: a StoreCandles call on a batch of n records of which exactly one is
\* malformed (its individual write fails) returns n - 1 with no error and
\* leaves the other n - 1 records stored, on every backend.
C9_PartialSuccess ==
    (/\ lastCall.seq > 0
     /\ ~lastCall.batchFault
     /\ Cardinality(lastCall.failed) = 1)
    => /\ ~lastCall.err
       /\ lastCall.n = Len(lastCall.batch) - 1
       /\ DurableOfLastCall = Len(lastCall.batch) - 1

\* C10: the count StoreCandles returns is the number of records of the batch
\* that are stored when the call returns.
C10_CountIsDurable ==
    lastCall.seq > 0 => lastCall.n = DurableOfLastCall

\* C11: storage is append-only: whatever operation is performed (Init,
\* StoreCandles, Close), failed or not, every record stored for a symbol
\* before it is stored, unchanged, after it.
C11_AppendOnly ==
    [][\A s \in Symbols :
          \A i \in 1..Len(StoredRows(s)) :
              \E j \in 1..Len(StoredRows(s)') : StoredRows(s)'[j] = StoredRows(s)[i]]_vars

\* C12: on the CSV and JSON backends a StoreCandles(s, batch) call that
\* returns no error while the file of s exists leaves in the file the records
\* it held, in their order, followed by the records of the batch.
C12_ExistingFileIsMerged ==
    [][\A s \in Symbols :
          (/\ backend \in FileBackends
           /\ lastCall'.seq = lastCall.seq + 1
           /\ lastCall'.symbol = s
           /\ ~lastCall'.err
           /\ files[s].exists)
          => StoredRows(s)' = StoredRows(s) \o Rows(s, lastCall'.batch, lastCall'.seq)]_vars

\* C14: an Init call made right after an Init call that returned no error
\* returns no error either (the environment permitting) and leaves the storage
\* state as the first call left it: the same table or directory, the same
\* files and the same records.
C14_InitIdempotent ==
    [][(/\ lastInit'.calls = lastInit.calls + 1
        /\ lastInit.calls >= 1
        /\ ~lastInit.err
        /\ ~lastInit'.fault)
       => /\ ~lastInit'.err
          /\ UNCHANGED <<backend, schemaReady, closed, table, files>>
          /\ \A s \in Symbols : StoredRows(s)' = StoredRows(s)]_vars

\* two Init calls in succession, both without error, on a store that holds
\* records
C14_Witness ==
    /\ lastInit.calls >= 2
    /\ ~lastInit.err
    /\ \E s \in Symbols : StoredRows(s) # <<>>

\* C35: on the DuckDB and SQLite backends a StoreCandles call that returns an
\* error returns the count 0 and leaves the ohlcv table as it was.
C35_FailedTransactionStoresNothing ==
    [][(/\ backend \in DBBackends
        /\ lastCall'.seq = lastCall.seq + 1
        /\ lastCall'.err)
       => /\ lastCall'.n = 0
          /\ table' = table]_vars

\* a call on a database that holds rows failed at the commit of a batch
C35_Witness ==
    /\ backend \in DBBackends
    /\ schemaReady
    /\ ~closed
    /\ lastCall.err
    /\ lastCall.batch # <<>>
    /\ lastCall.failed # {}
    /\ table # <<>>

\* C39: a StoreCandles(symbol, batch) call touches the records of that symbol
\* only: on the file backends every other symbol's file is left as it was, on
\* the databases the table is extended by rows of that symbol, and the stored
\* records of every other symbol are the same after the call.
C39_OnlyTheSymbolIsTouched ==
    [][lastCall'.seq = lastCall.seq + 1 =>
          /\ \A s \in Symbols \ {lastCall'.symbol} :
                /\ files'[s] = files[s]
                /\ StoredRows(s)' = StoredRows(s)
          /\ backend \in FileBackends => table' = table
          /\ backend \in DBBackends =>
                /\ files' = files
                /\ Len(table') >= Len(table)
                /\ SubSeq(table', 1, Len(table)) = table
                /\ \A i \in (Len(table) + 1)..Len(table') :
                      table'[i].instrument = lastCall'.symbol]_vars

\* both symbols hold records, written by different calls
C39_Witness ==
    /\ lastCall.seq >= 2
    /\ \A s \in Symbols : StoredRows(s) # <<>>

\* the number of header lines of a file
HeaderCount(rows) == Cardinality({i \in 1..Len(rows) : rows[i] = HeaderRow})

\* C13: on the CSV backend a file that holds any line holds the header line
\* exactly once, as its first line.
C13_HeaderExactlyOnce ==
    backend = StorageTypeCSV =>
        \A s \in Symbols :
            files[s].rows # <<>> =>
                /\ files[s].rows[1] = HeaderRow
                /\ HeaderCount(files[s].rows) = 1

----------------------------------------------------------------------------
(* Specification SpecClient: GetHistoricalData invoked on one client *)

\* instrumentTokenMap of runFetchData: the symbols of the instrument list
InstrumentTokenMap == [s \in Symbols |-> IF s = "SBIN" THEN 779521 ELSE 738561]

InitClient ==
    /\ ClientNew
    /\ ChunkerUnused
    /\ StoreUnused
    /\ LoopUnused

\* a caller invokes GetHistoricalData for an instrument and a 30-day range
ClientInvoke(symbol) ==
    /\ ghd.pc = "idle"
    /\ invocations < MaxInvocations
    /\ invocations' = invocations + 1
    /\ ghd' = Invocation(InstrumentTokenMap[symbol], 0, 30 * SecondsPerDay)
    /\ UNCHANGED <<limiter, now, admitTimes, upstreamLog>>

\* the caller takes the result
ClientReturn ==
    /\ ghd.pc = "ret"
    /\ ghd' = NoInvocation
    /\ UNCHANGED <<limiter, now, admitTimes, upstreamLog, invocations>>

\* time passes
Tick ==
    /\ now < MaxTime
    /\ now' = now + 1
    /\ UNCHANGED <<limiter, ghd, admitTimes, upstreamLog, invocations>>

\* a run timeout or a user interrupt cancels the caller's context while the
\* invocation sleeps in limiter.Wait; GetHistoricalData takes no context and
\* waits on context.Background(), so the limiter is not told
CancelSignal ==
    /\ ghd.pc = "wait"
    /\ WaitDelay(limiter, now) > 0
    /\ ~ghd.cancelled
    /\ ghd' = [ghd EXCEPT !.cancelled = TRUE]
    /\ UNCHANGED <<limiter, now, admitTimes, upstreamLog, invocations>>

NextClient ==
    \/ CancelSignal /\ UNCHANGED <<chunkVars, storeVars, loopVars>>
    \/ (\E symbol \in Symbols : ClientInvoke(symbol)) /\ UNCHANGED <<chunkVars, storeVars, loopVars>>
    \/ GetHistoricalDataStep /\ UNCHANGED <<chunkVars, storeVars, loopVars>>
    \/ ClientReturn /\ UNCHANGED <<chunkVars, storeVars, loopVars>>
    \/ Tick /\ UNCHANGED <<chunkVars, storeVars, loopVars>>

SpecClient == InitClient /\ [][NextClient]_vars

----------------------------------------------------------------------------
(* Properties of the client *)

\* C5: within one GetHistoricalData invocation the upstream endpoint is called
\* at most once and only after exactly one successful limiter.Wait of the same
\* invocation; when the Wait fails the invocation makes no upstream call.
C5_OneAcquirePerUpstreamCall ==
    /\ ghd.upstream <= 1
    /\ ghd.acquired <= 1
    /\ ghd.pc = "call" => (ghd.acquired = 1 /\ ghd.upstream = 0)
    /\ ghd.upstream = 1 => ghd.acquired = 1
    /\ ghd.waitFailed => (ghd.upstream = 0 /\ ghd.acquired = 0)
    /\ Len(admitTimes) = Len(upstreamLog) + (IF ghd.pc = "call" THEN 1 ELSE 0)

C5_Witness ==
    /\ Len(upstreamLog) >= 2
    /\ ghd.pc = "ret"
    /\ ghd.waitFailed

\* C6: the calls are admitted by one token bucket of rate R = 3 per second and
\* burst B = 1: any j - i + 1 consecutive admissions span at least
\* (j - i + 1 - B) / R seconds, i.e. no interval of T seconds holds more than
\* B + R * T admissions, whichever instruments the calls are for.
C6_RateBound ==
    /\ RateLimitRequestsPerSecond = 3
    /\ RateLimitBurst = 1
    /\ \A i \in 1..Len(admitTimes) : \A j \in i..Len(admitTimes) :
          (j - i + 1 - RateLimitBurst) * TicksPerSecond
              <= RateLimitRequestsPerSecond * (admitTimes[j] - admitTimes[i])

\* three admissions for two instruments, two of them as close as the bucket allows
C6_Witness ==
    /\ Len(admitTimes) >= 3
    /\ \E i, j \in 1..Len(upstreamLog) : upstreamLog[i].token # upstreamLog[j].token
    /\ \E i \in 1..(Len(admitTimes) - 1) :
          RateLimitRequestsPerSecond * (admitTimes[i + 1] - admitTimes[i])
              < TicksPerSecond + RateLimitRequestsPerSecond

\* C20: an invocation whose caller's context was cancelled while it was
\* blocked waiting for a token leaves the wait with a failure and makes no
\* upstream call.
C20_WaitIsCancellable ==
    ghd.cancelled =>
        /\ ghd.pc = "wait" \/ (ghd.pc = "ret" /\ ghd.waitFailed)
        /\ ghd.upstream = 0

----------------------------------------------------------------------------
(* Specification Spec: runFetchData, from the loaded configuration on *)

\* a symbol of the configuration that the instrument list does not hold
UnknownSymbols == {"NOSUCH"}

\* conf.Instruments: up to MaxInstruments different symbols, or none
InstrumentLists ==
    {l \in UNION {[1..n -> Symbols \cup UnknownSymbols] : n \in 0..MaxInstruments} :
        \A j, k \in 1..Len(l) : l[j] = l[k] => j = k}

\* from_date and to_date as written in the configuration: missing, not a
\* YYYY-MM-DD date, or one of two dates 90 days apart (two chunks for "minute",
\* one for "day")
DateStrings == {"", "01/01/2024", "2024-01-01", "2024-03-31"}

\* time.Parse("2006-01-02", s): the instant, or an error
ParseDate(s) ==
    CASE s = "2024-01-01" -> [err |-> FALSE, t |-> 0]
      [] s = "2024-03-31" -> [err |-> FALSE, t |-> 90 * SecondsPerDay]
      [] OTHER            -> [err |-> TRUE, t |-> 0]

ValidIntervalsWithWeek ==
    {"minute", "3minute", "5minute", "10minute", "15minute", "30minute",
     "60minute", "day", "week"}

\* validIntervals of ValidateBasic
ValidIntervals ==
    {"minute", "3minute", "5minute", "10minute", "15minute", "30minute",
     "60minute", "day"}

\* validStorageTypes of ValidateBasic
ValidStorageTypes == {"duckdb", "sqlite", "json", "csv"}

\* ValidateBasic without the interval check
ValidateBasicNoInterval(c, ins, iv) ==
    {f \in {"api_key", "api_secret", "instruments", "from_date", "to_date",
            "date_range", "storage_type"} :
        \/ f = "api_key" /\ c.apiKey = ""
        \/ f = "api_secret" /\ c.apiSecret = ""
        \/ f = "instruments" /\ ins = <<>>
        \/ f = "from_date" /\ ParseDate(c.fromDate).err
        \/ f = "to_date" /\ ParseDate(c.toDate).err
        \/ f = "date_range" /\ ~ParseDate(c.fromDate).err /\ ~ParseDate(c.toDate).err
                            /\ ~(ParseDate(c.fromDate).t < ParseDate(c.toDate).t)
        \/ f = "storage_type" /\ c.storageType # "" /\ c.storageType \notin ValidStorageTypes}

ValidateBasicAllowsEqualDates(c, ins, iv) ==
    {f \in {"api_key", "api_secret", "instruments", "from_date", "to_date",
            "date_range", "interval", "storage_type"} :
        \/ f = "api_key" /\ c.apiKey = ""
        \/ f = "api_secret" /\ c.apiSecret = ""
        \/ f = "instruments" /\ ins = <<>>
        \/ f = "from_date" /\ ParseDate(c.fromDate).err
        \/ f = "to_date" /\ ParseDate(c.toDate).err
        \/ f = "date_range" /\ ~ParseDate(c.fromDate).err /\ ~ParseDate(c.toDate).err
                            /\ ParseDate(c.fromDate).t > ParseDate(c.toDate).t
        \/ f = "interval" /\ iv \notin ValidIntervals
        \/ f = "storage_type" /\ c.storageType # "" /\ c.storageType \notin ValidStorageTypes}

\* ValidateBasic: the fields it reports an error for (a missing date fails
\* "is required", a malformed one fails time.Parse; the symbols of the model
\* are neither blank nor longer than 20 characters)
ValidateBasic(c, ins, iv) ==
    {f \in {"api_key", "api_secret", "instruments", "from_date", "to_date",
            "date_range", "interval", "storage_type"} :
        \/ f = "api_key" /\ c.apiKey = ""
        \/ f = "api_secret" /\ c.apiSecret = ""
        \/ f = "instruments" /\ ins = <<>>
        \/ f = "from_date" /\ ParseDate(c.fromDate).err
        \/ f = "to_date" /\ ParseDate(c.toDate).err
        \/ f = "date_range" /\ ~ParseDate(c.fromDate).err /\ ~ParseDate(c.toDate).err
                            /\ ~(ParseDate(c.fromDate).t < ParseDate(c.toDate).t)
        \/ f = "interval" /\ iv \notin ValidIntervals
        \/ f = "storage_type" /\ c.storageType # "" /\ c.storageType \notin ValidStorageTypes}

\* ValidateComplete: ValidateStorage runs only when ValidateBasic found
\* nothing; pathOk tells whether its os.MkdirAll / os.OpenFile checks pass
ValidateComplete(c, ins, iv, pathOk) ==
    LET basic == ValidateBasic(c, ins, iv)
    IN  IF basic # {} THEN basic
        ELSE IF pathOk THEN {} ELSE {"storage_path"}

\* configurations that name no path
PlainConfigs ==
    [apiKey : {"", "key"}, apiSecret : {"", "secret"},
     requestToken : {"", "valid", "expired"},
     fromDate : DateStrings, toDate : DateStrings,
     storageType : {""} \cup ValidStorageTypes \cup {"parquet"},
     storagePath : {""}, duckdbPath : {""}]

\* configurations that still carry the deprecated duckdb_path, with and
\* without a storage_path and a storage_type
LegacyConfigs ==
    {[NoConf EXCEPT !.storageType = t, !.storagePath = p, !.duckdbPath = "old.duckdb"] :
        t \in {"", StorageTypeJSON}, p \in {"", "data/custom"}}

Configs == PlainConfigs \cup LegacyConfigs

\* calculateAPICalls: the chunks of every instrument found in the token map
TotalAPICalls(l, f, t, iv) ==
    Cardinality({k \in 1..Len(l) : l[k] \in DOMAIN InstrumentTokenMap})
        * Len(GenerateDateChunks(f, t, iv))

\* calculateAPICalls: validInstruments
ValidInstruments(l) ==
    Cardinality({k \in 1..Len(l) : l[k] \in DOMAIN InstrumentTokenMap})

\* calculateAPICalls: len(invalidInstruments)
InvalidInstruments(l) ==
    Cardinality({k \in 1..Len(l) : l[k] \notin DOMAIN InstrumentTokenMap})

Init ==
    /\ conf \in Configs
    /\ instruments \in InstrumentLists
    /\ interval \in {"", "minute", "day", "week"}
    /\ ValidateBasic(conf, instruments, interval) = {} =>
          TotalAPICalls(instruments, ParseDate(conf.fromDate).t,
                        ParseDate(conf.toDate).t, interval) <= MaxPlannedCalls
    /\ from = 0
    /\ to = 0
    /\ chunks = <<>>
    /\ cpc = "idle"
    /\ backend = "none"
    /\ schemaReady = FALSE
    /\ lastInit = NoInit
    /\ closed = FALSE
    /\ table = <<>>
    /\ files = [s \in Symbols |-> NoFile]
    /\ lastCall = NoCall
    /\ ClientNew
    /\ pc = "validate"
    /\ runErr = ""
    /\ plan = NoPlan
    /\ steps = {}
    /\ idx = 0
    /\ chunkIdx = 0
    /\ processedInstruments = 0
    /\ totalInserted = 0
    /\ totalCandles = 0
    /\ events = <<>>

loopLocals ==
    <<idx, chunkIdx, processedInstruments, totalInserted, totalCandles, events>>

\* return fmt.Errorf(...)
Fail(err) ==
    /\ pc' = "failed"
    /\ runErr' = err

\* conf.ValidateComplete(); if validation.HasErrors() { return ... }
RunValidate ==
    /\ pc = "validate"
    /\ steps' = steps \cup {"validate"}
    /\ \E pathOk \in BOOLEAN :
          IF ValidateComplete(conf, instruments, interval, pathOk) # {}
          THEN Fail("configuration")
          ELSE pc' = "auth" /\ runErr' = runErr
    /\ UNCHANGED <<conf, plan, instruments, loopLocals, chunkVars, storeVars, clientVars>>

\* kite.NewClientWithConfigPath(...); kiteClient.Authenticate(): a request
\* token in the configuration is used as it is; without one the login flow
\* runs and ends well ("ok") or fails at ui.GetRequestToken ("input"),
\* kc.GenerateSession ("session") or config.Save ("save")
RunAuthenticate ==
    /\ pc = "auth"
    /\ steps' = steps \cup {"authenticate"}
    /\ IF conf.requestToken # "" THEN
           /\ conf' = conf
           /\ pc' = "newstore" /\ runErr' = runErr
       ELSE IF conf.apiKey = "" \/ conf.apiSecret = "" THEN
           /\ conf' = conf
           /\ Fail("authentication")
       ELSE
           \E outcome \in {"ok", "input", "session", "save"} :
              /\ conf' = IF outcome \in {"ok", "save"}
                         THEN [conf EXCEPT !.requestToken = "valid"]
                         ELSE conf
              /\ IF outcome = "ok"
                 THEN pc' = "newstore" /\ runErr' = runErr
                 ELSE Fail("authentication")
    /\ UNCHANGED <<plan, instruments, loopLocals, chunkVars, storeVars, clientVars>>

\* the default storagePath of a storage type
DefaultStoragePath(storageType) ==
    CASE storageType = StorageTypeJSON   -> "data/json"
      [] storageType = StorageTypeCSV    -> "data/csv"
      [] storageType = StorageTypeSQLite -> "market_data.sqlite"
      [] OTHER                           -> "market_data.duckdb"

\* the storage type runFetchData hands to NewStore: duckdb when the
\* deprecated duckdb_path is used for want of a storage_path, else
\* storage_type, duckdb when that is empty
EffectiveStorageType(c) ==
    IF c.storagePath = "" /\ c.duckdbPath # "" THEN StorageTypeDuckDB
    ELSE IF c.storageType = "" THEN StorageTypeDuckDB
    ELSE c.storageType

\* the storage path runFetchData hands to NewStore
EffectiveStoragePath(c) ==
    IF c.storagePath # "" THEN c.storagePath
    ELSE IF c.duckdbPath # "" THEN c.duckdbPath
    ELSE DefaultStoragePath(EffectiveStorageType(c))

\* the storage type testStorage of the validate command hands to NewStore
TestStorageType(c) ==
    IF c.storageType = "" THEN StorageTypeDuckDB ELSE c.storageType

\* the storage path testStorage hands to NewStore
TestStoragePath(c) ==
    IF c.storagePath # "" THEN c.storagePath
    ELSE IF c.duckdbPath # "" THEN c.duckdbPath
    ELSE DefaultStoragePath(TestStorageType(c))

\* storage.NewStore(storageType, storagePath, appLogger): sql.Open can fail
\* for the databases, the file stores are always created
RunNewStore ==
    /\ pc = "newstore"
    /\ steps' = steps \cup {"newstore"}
    /\ LET b == NewStore(EffectiveStorageType(conf))
       IN  \E openOk \in BOOLEAN :
              /\ b \in FileBackends => openOk
              /\ IF openOk
                 THEN backend' = b /\ pc' = "init" /\ runErr' = runErr
                 ELSE backend' = backend /\ Fail("storage")
    /\ UNCHANGED <<schemaReady, closed, table, files, lastCall, lastInit>>
    /\ UNCHANGED <<conf, plan, instruments, loopLocals, chunkVars, clientVars>>

\* runFetchData returns after defer dbStore.Close() was registered: Close runs
DeferredClose == StoreClose

RunStoreInitIgnoresError ==
    /\ pc = "init"
    /\ steps' = steps \cup {"init"}
    /\ \E ok \in BOOLEAN : StoreInit(ok)
    /\ pc' = "instruments" /\ runErr' = runErr
    /\ UNCHANGED <<conf, plan, instruments, loopLocals, chunkVars, clientVars>>

\* defer dbStore.Close(); if err := dbStore.Init(); err != nil { return ... }
RunStoreInit ==
    /\ pc = "init"
    /\ steps' = steps \cup {"init"}
    /\ \E ok \in BOOLEAN :
          LET r == InitResult(backend, schemaReady, closed, ok)
          IN  /\ schemaReady' = r.ready
              /\ IF r.err
                 THEN /\ Fail("storage")
                      /\ closed' = TRUE
                      /\ lastInit' = NoInit
                 ELSE /\ pc' = "instruments" /\ runErr' = runErr
                      /\ closed' = closed
                      /\ lastInit' = [calls |-> lastInit.calls + 1, err |-> FALSE,
                                      fault |-> FALSE]
    /\ UNCHANGED <<backend, table, files, lastCall>>
    /\ UNCHANGED <<conf, plan, instruments, loopLocals, chunkVars, clientVars>>

RunGetInstrumentsLeaksStore ==
    /\ pc = "instruments"
    /\ steps' = steps \cup {"instruments"}
    /\ \E cached \in BOOLEAN : \E apiOk \in BOOLEAN :
          /\ cached => apiOk
          /\ (~cached /\ conf.requestToken = "expired") => ~apiOk
          /\ IF apiOk
             THEN pc' = "plan" /\ runErr' = runErr
             ELSE Fail("instruments")
    /\ UNCHANGED <<conf, plan, instruments, loopLocals, chunkVars, storeVars, clientVars>>

\* kite.GetInstruments: the list comes from instrument_cache.json when that
\* holds one, else from the API, which rejects an expired token
RunGetInstruments ==
    /\ pc = "instruments"
    /\ steps' = steps \cup {"instruments"}
    /\ \E cached \in BOOLEAN : \E apiOk \in BOOLEAN :
          /\ cached => apiOk
          /\ (~cached /\ conf.requestToken = "expired") => ~apiOk
          /\ IF apiOk
             THEN pc' = "plan" /\ runErr' = runErr /\ UNCHANGED storeVars
             ELSE Fail("instruments") /\ DeferredClose
    /\ UNCHANGED <<conf, plan, instruments, loopLocals, chunkVars, clientVars>>

PlanFailsOnAnyInvalid(l) == ValidInstruments(l) < Len(l)

\* if validInstruments == 0
PlanFails(l) == ValidInstruments(l) = 0

\* from, to := time.Parse(...); calculateAPICalls(...);
\* if validInstruments == 0 { return ... }
RunPlan ==
    /\ pc = "plan"
    /\ steps' = steps \cup {"plan"}
    /\ from' = ParseDate(conf.fromDate).t
    /\ to' = ParseDate(conf.toDate).t
    /\ plan' = [totalAPICalls |-> TotalAPICalls(instruments, from', to', interval),
                validInstruments |-> ValidInstruments(instruments),
                invalidInstruments |-> InvalidInstruments(instruments)]
    /\ IF PlanFails(instruments)
       THEN Fail("no valid instruments") /\ DeferredClose
       ELSE pc' = "confirm" /\ runErr' = runErr /\ UNCHANGED storeVars
    /\ UNCHANGED <<interval, chunks, cpc>>
    /\ UNCHANGED <<conf, instruments, loopLocals, clientVars>>

RunConfirmProceedsAnyway ==
    /\ pc = "confirm"
    /\ \E skip \in BOOLEAN : \E answer \in BOOLEAN :
          steps' = IF skip \/ answer THEN steps \cup {"confirm"}
                   ELSE steps \cup {"confirm", "declined"}
    /\ pc' = "instrument" /\ idx' = 1 /\ UNCHANGED storeVars
    /\ UNCHANGED <<conf, runErr, plan, instruments, chunkIdx, processedInstruments,
                   totalInserted, totalCandles, events>>
    /\ UNCHANGED <<chunkVars, clientVars>>

\* if !skipConfirm && !confirmPlan(...) { return nil }; runFetchingLoop(...):
\* skip is the --yes flag, answer tells whether the user typed y or yes
RunConfirm ==
    /\ pc = "confirm"
    /\ \E skip \in BOOLEAN : \E answer \in BOOLEAN :
          IF skip \/ answer
          THEN /\ steps' = steps \cup {"confirm"}
               /\ pc' = "instrument" /\ idx' = 1 /\ UNCHANGED storeVars
          ELSE /\ steps' = steps \cup {"confirm", "declined"}
               /\ pc' = "cancelled" /\ idx' = idx /\ DeferredClose
    /\ UNCHANGED <<conf, runErr, plan, instruments, chunkIdx, processedInstruments,
                   totalInserted, totalCandles, events>>
    /\ UNCHANGED <<chunkVars, clientVars>>

\* token, ok := tokenMap[instrumentSymbol]: the zero value for a missing key
TokenOf(symbol) ==
    IF symbol \in DOMAIN InstrumentTokenMap THEN InstrumentTokenMap[symbol] ELSE 0

\* the number of records the store holds
StoredCount ==
    Cardinality(UNION {{<<s, i>> : i \in 1..Len(StoredRows(s))} : s \in Symbols})

\* an entry of the history: cancelled tells that the cancel signal came while
\* the chunk's fetch waited for the limiter, stored is the number of records
\* the store held when the fetch returned
Event(kind, outcome, n) ==
    [kind |-> kind, idx |-> idx, chunk |-> chunkIdx, outcome |-> outcome, n |-> n,
     cancelled |-> ghd.cancelled, stored |-> StoredCount]

LoopSkipInstrumentProcesses ==
    /\ pc = "instrument"
    /\ idx <= Len(instruments)
    /\ instruments[idx] \notin DOMAIN InstrumentTokenMap
    /\ processedInstruments' = processedInstruments + 1
    /\ chunks' = GenerateDateChunks(from, to, interval)
    /\ totalInserted' = 0
    /\ chunkIdx' = 1
    /\ pc' = "chunk"
    /\ UNCHANGED <<instruments, idx, totalCandles, events>>
    /\ UNCHANGED <<from, to, interval, cpc, storeVars, clientVars>>

\* token, ok := tokenMap[instrumentSymbol]; if !ok { continue }
LoopSkipInstrument ==
    /\ pc = "instrument"
    /\ idx <= Len(instruments)
    /\ instruments[idx] \notin DOMAIN InstrumentTokenMap
    /\ idx' = idx + 1
    /\ UNCHANGED <<instruments, pc, chunkIdx, processedInstruments, totalInserted,
                   totalCandles, events>>
    /\ UNCHANGED <<chunkVars, storeVars, clientVars>>

LoopStartInstrumentCountsPosition ==
    /\ pc = "instrument"
    /\ idx <= Len(instruments)
    /\ instruments[idx] \in DOMAIN InstrumentTokenMap
    /\ processedInstruments' = idx
    /\ chunks' = GenerateDateChunks(from, to, interval)
    /\ totalInserted' = 0
    /\ chunkIdx' = 1
    /\ pc' = "chunk"
    /\ UNCHANGED <<instruments, idx, totalCandles, events>>
    /\ UNCHANGED <<from, to, interval, cpc, storeVars, clientVars>>

\* processedInstruments++; chunks := GenerateDateChunks(...); var totalInserted int
LoopStartInstrument ==
    /\ pc = "instrument"
    /\ idx <= Len(instruments)
    /\ instruments[idx] \in DOMAIN InstrumentTokenMap
    /\ processedInstruments' = processedInstruments + 1
    /\ chunks' = GenerateDateChunks(from, to, interval)
    /\ totalInserted' = 0
    /\ chunkIdx' = 1
    /\ pc' = "chunk"
    /\ UNCHANGED <<instruments, idx, totalCandles, events>>
    /\ UNCHANGED <<from, to, interval, cpc, storeVars, clientVars>>

\* candles, err := client.GetHistoricalData(token, conf.Interval, chunkFrom, chunkTo)
LoopFetch ==
    /\ pc = "chunk"
    /\ chunkIdx <= Len(chunks)
    /\ ghd' = Invocation(TokenOf(instruments[idx]),
                         chunks[chunkIdx][1], chunks[chunkIdx][2])
    /\ invocations' = invocations + 1
    /\ pc' = "fetching"
    /\ UNCHANGED <<limiter, now, admitTimes, upstreamLog>>
    /\ UNCHANGED <<instruments, idx, chunkIdx, processedInstruments, totalInserted,
                   totalCandles, events>>
    /\ UNCHANGED <<chunkVars, storeVars>>

LoopFetchErrorBreaks ==
    /\ pc = "fetching"
    /\ ghd.pc = "ret"
    /\ ghd.err
    /\ events' = Append(events, Event("fetch", "error", 0))
    /\ ghd' = NoInvocation
    /\ chunkIdx' = Len(chunks) + 1
    /\ pc' = "chunk"
    /\ UNCHANGED <<limiter, now, admitTimes, upstreamLog, invocations>>
    /\ UNCHANGED <<instruments, idx, processedInstruments, totalInserted, totalCandles>>
    /\ UNCHANGED <<chunkVars, storeVars>>

LoopFetchErrorRetries ==
    /\ pc = "fetching"
    /\ ghd.pc = "ret"
    /\ ghd.err
    /\ events' = Append(events, Event("fetch", "error", 0))
    /\ ghd' = NoInvocation
    /\ chunkIdx' = chunkIdx
    /\ pc' = "chunk"
    /\ UNCHANGED <<limiter, now, admitTimes, upstreamLog, invocations>>
    /\ UNCHANGED <<instruments, idx, processedInstruments, totalInserted, totalCandles>>
    /\ UNCHANGED <<chunkVars, storeVars>>

LoopFetchErrorAborts ==
    /\ pc = "fetching"
    /\ ghd.pc = "ret"
    /\ ghd.err
    /\ events' = Append(events, Event("fetch", "error", 0))
    /\ ghd' = NoInvocation
    /\ chunkIdx' = chunkIdx
    /\ pc' = "failed"
    /\ UNCHANGED <<limiter, now, admitTimes, upstreamLog, invocations>>
    /\ UNCHANGED <<instruments, idx, processedInstruments, totalInserted, totalCandles>>
    /\ UNCHANGED <<chunkVars, storeVars>>

\* if err != nil { ...; continue }
LoopFetchError ==
    /\ pc = "fetching"
    /\ ghd.pc = "ret"
    /\ ghd.err
    /\ events' = Append(events, Event("fetch", "error", 0))
    /\ ghd' = NoInvocation
    /\ chunkIdx' = chunkIdx + 1
    /\ pc' = "chunk"
    /\ UNCHANGED <<limiter, now, admitTimes, upstreamLog, invocations>>
    /\ UNCHANGED <<instruments, idx, processedInstruments, totalInserted, totalCandles>>
    /\ UNCHANGED <<chunkVars, storeVars>>

\* inserted, err := store.StoreCandles(instrumentSymbol, candles);
\* if err == nil { totalInserted += inserted }
LoopStoreCandles(candles) ==
    /\ \E f \in FaultsNow(Len(candles)) : StoreCandles(instruments[idx], candles, f)
    /\ events' = events \o
          << Event("fetch", IF candles = <<>> THEN "empty" ELSE "data", Len(candles)),
             Event("store", IF lastCall'.err THEN "error" ELSE "ok", lastCall'.n) >>
    /\ totalInserted' = IF lastCall'.err THEN totalInserted ELSE totalInserted + lastCall'.n
    /\ ghd' = NoInvocation
    /\ chunkIdx' = chunkIdx + 1
    /\ pc' = "chunk"
    /\ UNCHANGED <<limiter, now, admitTimes, upstreamLog, invocations>>
    /\ UNCHANGED <<instruments, idx, processedInstruments, totalCandles>>
    /\ UNCHANGED <<chunkVars, backend, schemaReady, closed, lastInit>>

LoopFetchEmptyStored ==
    /\ pc = "fetching"
    /\ ghd.pc = "ret"
    /\ ~ghd.err
    /\ Len(ghd.candles) = 0
    /\ LoopStoreCandles(ghd.candles)

\* if len(candles) == 0 { ...; continue }
LoopFetchEmpty ==
    /\ pc = "fetching"
    /\ ghd.pc = "ret"
    /\ ~ghd.err
    /\ Len(ghd.candles) = 0
    /\ events' = Append(events, Event("fetch", "empty", 0))
    /\ ghd' = NoInvocation
    /\ chunkIdx' = chunkIdx + 1
    /\ pc' = "chunk"
    /\ UNCHANGED <<limiter, now, admitTimes, upstreamLog, invocations>>
    /\ UNCHANGED <<instruments, idx, processedInstruments, totalInserted, totalCandles>>
    /\ UNCHANGED <<chunkVars, storeVars>>

\* the fetch returned candles: they are handed to StoreCandles
LoopStore ==
    /\ pc = "fetching"
    /\ ghd.pc = "ret"
    /\ ~ghd.err
    /\ Len(ghd.candles) > 0
    /\ LoopStoreCandles(ghd.candles)

LoopEndInstrumentAnyOrder ==
    /\ pc = "chunk"
    /\ chunkIdx > Len(chunks)
    /\ totalCandles' = totalCandles + totalInserted
    /\ \E next \in 1..(Len(instruments) + 1) : next # idx /\ idx' = next
    /\ pc' = "instrument"
    /\ UNCHANGED <<instruments, chunkIdx, processedInstruments, totalInserted, events>>
    /\ UNCHANGED <<chunkVars, storeVars, clientVars>>

LoopEndInstrumentOverwrites ==
    /\ pc = "chunk"
    /\ chunkIdx > Len(chunks)
    /\ totalCandles' = totalInserted
    /\ idx' = idx + 1
    /\ pc' = "instrument"
    /\ UNCHANGED <<instruments, chunkIdx, processedInstruments, totalInserted, events>>
    /\ UNCHANGED <<chunkVars, storeVars, clientVars>>

\* the chunks of the instrument are done: totalCandles += totalInserted
LoopEndInstrument ==
    /\ pc = "chunk"
    /\ chunkIdx > Len(chunks)
    /\ totalCandles' = totalCandles + totalInserted
    /\ idx' = idx + 1
    /\ pc' = "instrument"
    /\ UNCHANGED <<instruments, chunkIdx, processedInstruments, totalInserted, events>>
    /\ UNCHANGED <<chunkVars, storeVars, clientVars>>

\* the instruments are done: "Completed: %d candles saved for %d instruments";
\* runFetchData returns nil and its deferred dbStore.Close() runs
LoopDone ==
    /\ pc = "instrument"
    /\ idx > Len(instruments)
    /\ pc' = "done"
    /\ DeferredClose
    /\ UNCHANGED <<instruments, idx, chunkIdx, processedInstruments, totalInserted,
                   totalCandles, events>>
    /\ UNCHANGED <<chunkVars, clientVars>>

\* the cancel signal comes while the chunk's fetch waits for the limiter
LoopCancelSignal ==
    /\ pc = "fetching"
    /\ CancelSignal
    /\ UNCHANGED <<chunkVars, storeVars, loopVars>>

\* the steps of the running GetHistoricalData; the upstream endpoint answers
\* an expired token with an error
LoopGetHistoricalData ==
    /\ pc = "fetching"
    /\ GetHistoricalDataStep
    /\ (conf.requestToken = "expired" /\ ghd.pc = "call") => ghd'.err
    /\ UNCHANGED <<chunkVars, storeVars, loopVars>>

Next ==
    \/ RunValidate
    \/ RunAuthenticate
    \/ RunNewStore
    \/ RunStoreInit
    \/ RunGetInstruments
    \/ RunPlan
    \/ RunConfirm
    \/ LoopSkipInstrument /\ UNCHANGED runVars
    \/ LoopStartInstrument /\ UNCHANGED runVars
    \/ LoopFetch /\ UNCHANGED runVars
    \/ LoopCancelSignal
    \/ LoopGetHistoricalData
    \/ LoopFetchError /\ UNCHANGED runVars
    \/ LoopFetchEmpty /\ UNCHANGED runVars
    \/ LoopStore /\ UNCHANGED runVars
    \/ LoopEndInstrument /\ UNCHANGED runVars
    \/ LoopDone /\ UNCHANGED runVars

Spec == Init /\ [][Next]_vars

\* the runs whose configuration names every backend and a request token,
\* accepted or expired: the runs that get to the fetching loop
InitLive ==
    /\ Init
    /\ conf \in {[NoConf EXCEPT !.storageType = t, !.requestToken = r] :
                    t \in ValidStorageTypes, r \in {"valid", "expired"}}

\* the run is one goroutine that executes its next statement as long as it
\* has one: limiter.Wait returns when the token is there, the upstream call
\* and every store call return
SpecLive == InitLive /\ [][Next]_vars /\ WF_vars(Next)

----------------------------------------------------------------------------
(* Properties of runFetchingLoop *)

\* the positions of conf.Instruments whose symbol is in the token map
ResolvedPositions ==
    {k \in 1..Len(instruments) : instruments[k] \in DOMAIN InstrumentTokenMap}

\* the number of chunks of every instrument of the run
NumChunks == Len(GenerateDateChunks(from, to, interval))

EventsOf(kind, i, c) ==
    {k \in 1..Len(events) :
        events[k].kind = kind /\ events[k].idx = i /\ events[k].chunk = c}

\* e is the fetch of the chunk that follows chunk c of the instrument at i
IsNextFetch(e, i, c) ==
    /\ e.kind = "fetch"
    /\ IF c < NumChunks
       THEN e.idx = i /\ e.chunk = c + 1
       ELSE /\ e.idx \in ResolvedPositions
            /\ e.idx > i
            /\ \A k \in ResolvedPositions : ~(i < k /\ k < e.idx)
            /\ e.chunk = 1

\* C7: a chunk whose GetHistoricalData returned an error is never handed to
\* StoreCandles, the fetch made next is the one of the following chunk (of the
\* same instrument, or the first chunk of the next resolved instrument), and at
\* the end of the run every chunk of every resolved instrument was fetched once.
C7_FetchErrorSkipsOnlyTheChunk ==
    /\ \A k \in 1..Len(events) :
          (events[k].kind = "fetch" /\ events[k].outcome = "error") =>
              /\ EventsOf("store", events[k].idx, events[k].chunk) = {}
              /\ k < Len(events) =>
                    IsNextFetch(events[k + 1], events[k].idx, events[k].chunk)
    /\ pc = "done" =>
          \A i \in ResolvedPositions : \A c \in 1..NumChunks :
              Cardinality(EventsOf("fetch", i, c)) = 1

\* a finished run whose first fetch failed and whose next chunk (of the same
\* instrument or of the next one) was fetched and stored
C7_Witness ==
    /\ pc = "done"
    /\ Len(events) >= 3
    /\ events[1].kind = "fetch" /\ events[1].outcome = "error"
    /\ events[2].kind = "fetch" /\ events[2].outcome = "data"
    /\ events[3].kind = "store" /\ events[3].outcome = "ok"

\* GetHistoricalData returned zero candles and no error
EmptyFetchReturned ==
    /\ pc = "fetching"
    /\ ghd.pc = "ret"
    /\ ~ghd.err
    /\ ghd.candles = <<>>

\* C8: after a fetch that returned zero candles without an error the loop
\* goes on to the next chunk: StoreCandles is not called (the store is left
\* as it was), the inserted totals stay as they were and no error is recorded.
C8_EmptyFetchIsSkipped ==
    [][EmptyFetchReturned =>
          /\ UNCHANGED storeVars
          /\ totalInserted' = totalInserted
          /\ totalCandles' = totalCandles
          /\ events' = Append(events, Event("fetch", "empty", 0))
          /\ pc' = "chunk"
          /\ chunkIdx' = chunkIdx + 1
          /\ idx' = idx]_vars

\* an empty chunk was skipped and the chunk after it was fetched and stored
C8_Witness ==
    \E k \in 1..(Len(events) - 2) :
        /\ events[k].kind = "fetch" /\ events[k].outcome = "empty"
        /\ events[k + 1].kind = "fetch" /\ events[k + 1].outcome = "data"
        /\ events[k + 2].kind = "store" /\ events[k + 2].outcome = "ok"

----------------------------------------------------------------------------
(* Properties of runFetchData *)

\* no GetHistoricalData invocation, no upstream call and no StoreCandles call
\* was made in the run
NoChunkWork ==
    /\ invocations = 0
    /\ upstreamLog = <<>>
    /\ lastCall.seq = 0
    /\ events = <<>>

\* the tokens of the configured symbols that are in the token map
ResolvedTokens == {InstrumentTokenMap[instruments[k]] : k \in ResolvedPositions}

\* C15: for a configured symbol that is not in the token map the run starts
\* no chunk work: no fetch and no StoreCandles call is made for it; every
\* other configured symbol is processed.
C15_UnresolvedSymbolIsSkipped ==
    /\ pc \in {"chunk", "fetching"} => idx \in ResolvedPositions
    /\ \A k \in 1..Len(events) : events[k].idx \in ResolvedPositions
    /\ \A k \in 1..Len(upstreamLog) : upstreamLog[k].token \in ResolvedTokens
    /\ ghd.pc # "idle" => ghd.token \in ResolvedTokens
    /\ lastCall.seq > 0 => lastCall.symbol \in DOMAIN InstrumentTokenMap
    /\ pc = "done" =>
          /\ processedInstruments = Cardinality(ResolvedPositions)
          /\ \A i \in ResolvedPositions : EventsOf("fetch", i, 1) # {}

\* a finished run whose first symbol did not resolve and whose second symbol
\* had candles stored
C15_Witness ==
    /\ pc = "done"
    /\ Len(instruments) >= 2
    /\ instruments[1] \in UnknownSymbols
    /\ \E k \in 1..Len(events) :
          events[k].kind = "store" /\ events[k].idx = 2 /\ events[k].outcome = "ok"

\* C16: when no configured symbol resolves the run makes no chunk work and,
\* once it has counted the valid instruments, has failed with "no valid
\* instruments"; when one resolves, the run does not fail from then on.
C16_ZeroValidInstrumentsIsFatal ==
    /\ ResolvedPositions = {} =>
          /\ NoChunkWork
          /\ pc \notin {"confirm", "instrument", "chunk", "fetching", "done", "cancelled"}
          /\ "plan" \in steps => (pc = "failed" /\ runErr = "no valid instruments")
    /\ (ResolvedPositions # {} /\ "plan" \in steps) =>
          (pc # "failed" /\ runErr = "")

\* a run that failed because its only symbol did not resolve
C16_Witness ==
    /\ pc = "failed"
    /\ runErr = "no valid instruments"
    /\ instruments # <<>>
    /\ "instruments" \in steps

\* the configuration holds an error of the kinds validation is to report
ConfigInvalid ==
    \/ ParseDate(conf.fromDate).err
    \/ ParseDate(conf.toDate).err
    \/ ~(ParseDate(conf.fromDate).t < ParseDate(conf.toDate).t)
    \/ interval \notin ValidIntervals
    \/ conf.storageType \notin ({""} \cup ValidStorageTypes)
    \/ ValidateBasic(conf, instruments, interval) # {}

\* C17: with an invalid configuration, or once validation has reported an
\* error, the run consists of the validation step alone: it has failed with a
\* configuration error, and Authenticate, NewStore, Init, GetInstruments, the
\* fetches and StoreCandles never happen.
C17_ConfigErrorsBeforeAnyNetwork ==
    (ConfigInvalid \/ runErr = "configuration") =>
        /\ steps \subseteq {"validate"}
        /\ NoChunkWork
        /\ backend = "none"
        /\ "validate" \in steps => (pc = "failed" /\ runErr = "configuration")

\* a run with an unknown interval and a usable token that failed validation
C17_Witness ==
    /\ pc = "failed"
    /\ runErr = "configuration"
    /\ interval = "week"
    /\ conf.requestToken = "valid"
    /\ ValidateBasic(conf, instruments, interval) = {"interval"}

\* C18: with a missing API key or secret, or an expired cached token, the run
\* makes no chunk work and does not get to the fetching loop.
C18_BadCredentialsAreFatal ==
    (conf.apiKey = "" \/ conf.apiSecret = "" \/ conf.requestToken = "expired") =>
        /\ NoChunkWork
        /\ pc \notin {"instrument", "chunk", "fetching", "done"}

\* NewStore returned an error, or Init did
StorageUnavailable ==
    \/ "newstore" \in steps /\ backend = "none"
    \/ lastInit.calls > 0 /\ lastInit.err
    \/ "init" \in steps /\ ~schemaReady

\* C19: when the store cannot be created or its Init fails, the run has
\* failed with a storage error and makes no chunk work.
C19_StorageFailureIsFatal ==
    StorageUnavailable =>
        /\ pc = "failed"
        /\ runErr = "storage"
        /\ NoChunkWork
        /\ steps \cap {"instruments", "plan", "confirm"} = {}

\* a run that failed because Init returned an error
C19_Witness ==
    /\ pc = "failed"
    /\ runErr = "storage"
    /\ "init" \in steps
    /\ backend \in Backends

----------------------------------------------------------------------------
(* Properties of a whole run *)

\* C21: when the cancel signal comes while a chunk's fetch waits for the
\* limiter, the fetch fails without an upstream call, the chunk is not
\* stored, nothing is fetched or stored afterwards and the records stored
\* before stay stored.
C21_CancelStopsTheRun ==
    /\ (pc = "fetching" /\ ghd.cancelled) =>
          /\ ghd.pc \in {"wait", "ret"}
          /\ ghd.upstream = 0
    /\ \A k \in 1..Len(events) :
          events[k].cancelled =>
              /\ events[k].kind = "fetch" /\ events[k].outcome = "error"
              /\ k = Len(events)
              /\ pc # "fetching"
              /\ StoredCount >= events[k].stored

\* the chunk of a comes before the chunk of b in the order of the run
ChunkBefore(a, b) == a.idx < b.idx \/ (a.idx = b.idx /\ a.chunk < b.chunk)

\* C22: the fetches are made in the order of conf.Instruments and, within an
\* instrument, in ascending chunk order; a StoreCandles call directly follows
\* the successful fetch of its own chunk and is over before the next fetch
\* starts; one GetHistoricalData invocation at most is running, and only
\* while the loop waits for it.
C22_StrictlySequential ==
    /\ \A k \in 1..Len(events) :
          /\ events[k].idx \in 1..Len(instruments)
          /\ events[k].chunk \in 1..NumChunks
          /\ IF events[k].kind = "store"
             THEN /\ k > 1
                  /\ events[k - 1].kind = "fetch"
                  /\ events[k - 1].outcome = "data"
                  /\ events[k - 1].idx = events[k].idx
                  /\ events[k - 1].chunk = events[k].chunk
             ELSE k > 1 => ChunkBefore(events[k - 1], events[k])
    /\ (ghd.pc # "idle") <=> (pc = "fetching")
    /\ pc = "fetching" =>
          /\ \A k \in 1..Len(events) :
                ChunkBefore(events[k], [idx |-> idx, chunk |-> chunkIdx])
          /\ ghd.token = TokenOf(instruments[idx])
          /\ ghd.chunkFrom = chunks[chunkIdx][1]
          /\ ghd.chunkTo = chunks[chunkIdx][2]
    /\ invocations =
          Cardinality({k \in 1..Len(events) : events[k].kind = "fetch"})
              + (IF pc = "fetching" THEN 1 ELSE 0)
    /\ Len(upstreamLog) <= invocations
    /\ lastCall.seq = Cardinality({k \in 1..Len(events) : events[k].kind = "store"})

\* a finished run that fetched and stored two chunks, one after the other
C22_Witness ==
    /\ pc = "done"
    /\ Len(events) = 4
    /\ events[2].kind = "store"
    /\ events[4].kind = "store"
    /\ ChunkBefore(events[2], events[3])

RECURSIVE InsertedBy(_, _)
\* the sum of the counts of the first k entries that are StoreCandles calls
\* without error for an instrument at a position in I
InsertedBy(I, k) ==
    IF k = 0 THEN 0
    ELSE InsertedBy(I, k - 1) +
         (IF /\ events[k].kind = "store"
             /\ events[k].outcome = "ok"
             /\ events[k].idx \in I
          THEN events[k].n ELSE 0)

\* C23: an instrument's total is the sum of the counts its StoreCandles calls
\* returned without error, and the run's total is the sum of the totals of
\* the instruments done; failed or empty fetches and StoreCandles calls that
\* returned an error add nothing.
C23_TotalsAreSums ==
    /\ pc \in {"chunk", "fetching"} =>
          /\ totalInserted = InsertedBy({idx}, Len(events))
          /\ totalCandles = InsertedBy(1..(idx - 1), Len(events))
    /\ pc \in {"instrument", "done"} =>
          totalCandles = InsertedBy(1..Len(instruments), Len(events))

\* a finished run with one chunk stored and one StoreCandles call that
\* returned an error
C23_Witness ==
    /\ pc = "done"
    /\ totalCandles >= 1
    /\ \E k \in 1..Len(events) :
          events[k].kind = "store" /\ events[k].outcome = "error"

\* C24: GetHistoricalData is invoked at most once for a chunk of an
\* instrument, whatever it returns, and in a finished run exactly once for
\* every chunk of every resolved instrument: the invocations made are as many
\* as calculateAPICalls counted, the loop using the chunks the count used.
C24_NoChunkIsRetried ==
    /\ \A i \in 1..Len(instruments) : \A c \in 1..NumChunks :
          Cardinality(EventsOf("fetch", i, c)) <= 1
    /\ invocations <= plan.totalAPICalls
    /\ pc \in {"chunk", "fetching"} =>
          /\ chunks = GenerateDateChunks(from, to, interval)
          /\ plan.totalAPICalls = plan.validInstruments * Len(chunks)
    /\ pc = "done" =>
          /\ invocations = plan.totalAPICalls
          /\ \A i \in ResolvedPositions : \A c \in 1..NumChunks :
                Cardinality(EventsOf("fetch", i, c)) = 1

\* a finished run of two planned calls, one of which failed
C24_Witness ==
    /\ pc = "done"
    /\ plan.totalAPICalls = 2
    /\ invocations = 2
    /\ \E k \in 1..Len(events) :
          events[k].kind = "fetch" /\ events[k].outcome = "error"

\* C25: the store is created once, before any instrument is processed; it
\* is closed once, by the step that ends the run, on every way out after its
\* creation; StoreCandles is called only between a successful Init and Close.
C25_StoreHandleLifecycle ==
    [][/\ backend' # backend =>
             (backend = "none" /\ pc = "newstore" /\ NoChunkWork /\ idx = 0)
       /\ pc' \in {"instrument", "chunk", "fetching"} =>
             (backend' \in Backends /\ schemaReady' /\ ~closed')
       /\ ~closed
       /\ closed' => (backend # "none" /\ pc' \in {"failed", "cancelled", "done"})
       /\ (pc' \in {"failed", "cancelled", "done"} /\ backend' # "none") => closed'
       /\ lastCall'.seq # lastCall.seq =>
             (schemaReady /\ "init" \in steps /\ ~closed /\ ~closed')]_vars

\* the run failed to load the instrument list and closed its store
C25_Witness ==
    /\ pc = "failed"
    /\ runErr = "instruments"
    /\ backend \in Backends
    /\ closed

----------------------------------------------------------------------------
(* Validation and the interval calendar *)

\* C37: an interval token that ValidateBasic accepts is a key of the table of
\* parseIntervalMinutes, so the chunker called with it does not fall back to
\* the default of one minute.
C37_AcceptedIntervalIsInTable ==
    (cpc = "done" /\ ValidateBasic(conf, <<"SBIN">>, interval) = {}) =>
        /\ interval \in KnownIntervals
        /\ interval \notin UnknownIntervals

\* the chunker was called with the accepted token 10minute
C37_Witness ==
    /\ cpc = "done"
    /\ interval = "10minute"
    /\ ValidateBasic(conf, <<"SBIN">>, interval) = {}
    /\ chunks # <<>>

\* C32: a configuration whose from_date is not strictly before its to_date
\* fails validation; so once the run has planned, from < to, the range has at
\* least one chunk, the planned total is at least the number of resolved
\* instruments, and an instrument in the loop has at least one chunk.
C32_PlannedRangeIsNotEmpty ==
    /\ ( /\ "validate" \in steps
          /\ ~ParseDate(conf.fromDate).err /\ ~ParseDate(conf.toDate).err
          /\ ~(ParseDate(conf.fromDate).t < ParseDate(conf.toDate).t) )
        => (pc = "failed" /\ runErr = "configuration" /\ "plan" \notin steps)
    /\ "plan" \in steps =>
          /\ from < to
          /\ Len(GenerateDateChunks(from, to, interval)) >= 1
          /\ plan.totalAPICalls >= plan.validInstruments
    /\ pc \in {"chunk", "fetching"} => Len(chunks) >= 1

\* a plan of two calls for one resolved instrument waits for confirmation
C32_Witness ==
    /\ pc = "confirm"
    /\ from < to
    /\ plan.validInstruments = 1
    /\ plan.totalAPICalls = 2

----------------------------------------------------------------------------
(* The storage backend of a run *)

\* C33: the run instantiates the backend that storage_type names (duckdb when
\* storage_type is empty).
C33_BackendIsTheSelected ==
    ("newstore" \in steps /\ backend \in Backends) => backend = (IF conf.storageType = "" THEN StorageTypeDuckDB ELSE conf.storageType)

\* C36: the validate command and the fetch-data command resolve the same
\* storage type and storage path from a configuration.
C36_ValidateTestsTheFetchStore ==
    "newstore" \in steps =>
        <<TestStorageType(conf), TestStoragePath(conf)>> =
            <<EffectiveStorageType(conf), EffectiveStoragePath(conf)>>

----------------------------------------------------------------------------
(* A declined plan *)

\* C38: when the user declines the plan, the run makes no historical-data
\* call and no StoreCandles call, the store holds what it held, the store is
\* closed and the run returns without an error.
C38_DeclinedPlanDoesNothing ==
    /\ "declined" \in steps =>
          /\ pc = "cancelled"
          /\ runErr = ""
          /\ NoChunkWork
          /\ StoredCount = 0
          /\ closed
    /\ pc = "cancelled" => "declined" \in steps

\* a plan of two calls was declined
C38_Witness ==
    /\ pc = "cancelled"
    /\ "declined" \in steps
    /\ plan.totalAPICalls = 2
    /\ closed

----------------------------------------------------------------------------
(* Termination of runFetchingLoop *)

\* C34: once the fetching loop has started, whatever the fetches and the
\* store calls return, the run eventually completes: every chunk of every
\* resolved instrument was fetched and runFetchData returns without an error.
C34_LoopRunsToCompletion ==
    (pc \in {"instrument", "chunk", "fetching"}) ~>
        ( /\ pc = "done"
          /\ runErr = ""
          /\ idx = Len(instruments) + 1
          /\ \A i \in ResolvedPositions : \A c \in 1..NumChunks :
                EventsOf("fetch", i, c) # {} )

\* a completed run of two chunks: the fetch of one failed, StoreCandles
\* failed for the other
C34_Witness ==
    /\ pc = "done"
    /\ runErr = ""
    /\ plan.totalAPICalls = 2
    /\ \E k \in 1..Len(events) :
          events[k].kind = "fetch" /\ events[k].outcome = "error"
    /\ \E k \in 1..Len(events) :
          events[k].kind = "store" /\ events[k].outcome = "error"

====
